---- MODULE Spec2Model ----
(***************************************************************************)
(* Model of app.py, the Streamlit page of the Free-AI Image Generator.     *)
(*                                                                         *)
(* The page is a script that Streamlit re-runs from top to bottom on every *)
(* user interaction.  Two buttons do work: "Generate Images" (lines 78-113)*)
(* and "Generate Text Image" (lines 191-206), which calls the caption      *)
(* compositor add_text_to_image_centered_custom (lines 145-188).  The only *)
(* state that survives a re-run is st.session_state.prompt_history and the *)
(* values held by the widgets.                                             *)
(*                                                                         *)
(* A text is a sequence of one-character tokens: "a" and "b" are letters,  *)
(* "sp" is the blank and "nl" the line break.  Pixel lengths that Pillow   *)
(* returns as floats (font.getlength) are carried as integers in units of  *)
(* 1/SubPixel of a pixel.                                                  *)
(***************************************************************************)
EXTENDS Integers, Sequences, FiniteSets

VARIABLES
    prompt_history,  \* st.session_state.prompt_history
    prompt,          \* value of the prompt text input
    style,           \* value of the style select box
    num_images,      \* value of the "Number of Images" slider
    api,             \* the endpoint's answer to the k-th request of the last run
    images,          \* the list `images` of the generate handler: captions of the images shown
    history_view,    \* <<>> when no history is rendered, else <<the list rendered>>
    uploaded_img,    \* the uploaded image (its size) or NoImage
    text_to_add,     \* value of the caption text area
    text_size,       \* value of the "Text Size" slider
    font_choice,     \* value of the font select box
    font_loads,      \* whether ImageFont.truetype can load the chosen face
    lines,           \* the list `lines` built by the word-wrap
    line_par,        \* for each entry of lines, the index of the paragraph that appended it
    draws,           \* one record per line drawn: positions of the shadow and of the main text
    font_used,       \* the font the compositor resolved, NoFont when it did not run
    out_image,       \* TRUE when the compositor returned and its image is displayed
    messages,        \* what the run displayed with st.info / st.error / st.warning / st.success
    last_action,     \* which handler the last script run executed
    ended            \* "completed" when the run reached the end of its handler, else "aborted"

vars == <<prompt_history, prompt, style, num_images, api, images, history_view,
          uploaded_img, text_to_add, text_size, font_choice, font_loads,
          lines, line_par, draws, font_used, out_image, messages, last_action, ended>>

----------------------------------------------------------------------------
(* Bounds of the model *)

MaxLen == 5          \* longest caption, in characters
SubPixel == 2        \* resolution of a measured length: 1/SubPixel pixel
MaxHistory == 6      \* generate clicks in one session

(* Program constants *)

padding == 50        \* side margin of the caption
shadow_offset == 2   \* offset of the drop shadow
line_gap == 10       \* added to the height of "A" to get the line height
HistoryShown == 5    \* history[-5:]
MaxNumImages == 2    \* upper end of the "Number of Images" slider

----------------------------------------------------------------------------
(* Texts *)

Letters == {"a", "b"}
Blanks == {"sp"}
NL == "nl"
Chars == Letters \cup Blanks \cup {NL}

TextsUpTo(n) == UNION {[1..k -> Chars] : k \in 0..n}

\* str.isspace: what str.split() and str.strip() treat as whitespace
IsSpace(c) == c \in Blanks \cup {NL}

\* custom_text.split("\n"): the pieces between line breaks, empty pieces kept
RECURSIVE SplitNL(_, _)
SplitNL(s, cur) ==
    IF s = <<>> THEN <<cur>>
    ELSE IF Head(s) = NL THEN <<cur>> \o SplitNL(Tail(s), <<>>)
    ELSE SplitNL(Tail(s), Append(cur, Head(s)))

split_paragraphs(custom_text) == SplitNL(custom_text, <<>>)

\* paragraph.split(): the maximal runs of non-whitespace, empty pieces dropped
RECURSIVE SplitWS(_, _)
SplitWS(s, cur) ==
    LET piece == IF cur = <<>> THEN <<>> ELSE <<cur>>
    IN  IF s = <<>> THEN piece
        ELSE IF IsSpace(Head(s)) THEN piece \o SplitWS(Tail(s), <<>>)
        ELSE SplitWS(Tail(s), Append(cur, Head(s)))

split_words(paragraph) == SplitWS(paragraph, <<>>)

RECURSIVE lstrip(_)
lstrip(s) == IF s # <<>> /\ IsSpace(Head(s)) THEN lstrip(Tail(s)) ELSE s

RECURSIVE rstrip(_)
rstrip(s) ==
    IF s # <<>> /\ IsSpace(s[Len(s)]) THEN rstrip(SubSeq(s, 1, Len(s) - 1)) ELSE s

\* str.strip()
strip(s) == rstrip(lstrip(s))

\* f"{current_line} {word}" without the strip: the two words run together
TestLineNoSeparator(current_line, word) == current_line \o word

\* test_line = f"{current_line} {word}".strip()
TestLine(current_line, word) == strip(current_line \o <<"sp">> \o word)

----------------------------------------------------------------------------
(* Fonts *)

FontFaces == {"DejaVu Sans", "DejaVu Sans Bold"}
TextSizes == {10, 15}          \* values of the slider, which ranges over 10..100

\* Advance of a glyph of a scalable face, in tenths of the em square.
EmTenths(face, c) ==
    IF face = "DejaVu Sans"
    THEN (IF c = "a" THEN 6 ELSE IF c = "b" THEN 7 ELSE 3)
    ELSE (IF c = "a" THEN 7 ELSE IF c = "b" THEN 8 ELSE 4)

\* Advance of one character in 1/SubPixel pixel.  The built-in default face is
\* loaded without a size: its glyphs have one fixed advance.
Advance(font, c) ==
    IF font.face = "default" THEN 6 * SubPixel
    ELSE (EmTenths(font.face, c) * font.size * SubPixel) \div 10

\* font.getlength(s), in 1/SubPixel pixel
RECURSIVE getlength(_, _)
getlength(font, s) ==
    IF s = <<>> THEN 0 ELSE Advance(font, Head(s)) + getlength(font, Tail(s))

\* font.getbbox("A")[3] - font.getbbox("A")[1], in whole pixels
GlyphHeight(font) ==
    IF font.face = "default" THEN 8 ELSE (7 * font.size) \div 10

\* the fallback without the st.error
LoadFontSilently(face, size, loads) ==
    IF loads THEN [font |-> [face |-> face, size |-> size], shown |-> <<>>]
    ELSE [font |-> [face |-> "default", size |-> 0], shown |-> <<>>]

\* try: ImageFont.truetype(font_path, size)
\* except: st.error("Font load failed"); ImageFont.load_default()
LoadFont(face, size, loads) ==
    IF loads THEN [font |-> [face |-> face, size |-> size], shown |-> <<>>]
    ELSE [font |-> [face |-> "default", size |-> 0],
          shown |-> <<"error: Font load failed">>]

----------------------------------------------------------------------------
(* The caption compositor *)

\* width budget with the margin taken off one side only
MaxTextWidthOneSide(width) == width - padding

\* max_text_width = width - (2 * padding), in pixels
MaxTextWidth(width) == width - (2 * padding)

\* the end of a paragraph appending its line whether or not it holds a word
FlushAlways(acc, current_line, par) ==
    Append(acc, [text |-> current_line, par |-> par])

\* if current_line: lines.append(current_line)
FlushLine(acc, current_line, par) ==
    IF current_line # <<>>
    THEN Append(acc, [text |-> current_line, par |-> par])
    ELSE acc

\* The inner loop over the words of paragraph number par; acc is `lines`.
RECURSIVE WrapWords(_, _, _, _, _, _)
WrapWords(words, current_line, par, font, max_text_width, acc) ==
    IF words = <<>> THEN FlushLine(acc, current_line, par)
    ELSE LET word == Head(words)
             test_line == TestLine(current_line, word)
         IN  IF getlength(font, test_line) <= max_text_width * SubPixel
             THEN WrapWords(Tail(words), test_line, par, font, max_text_width, acc)
             ELSE WrapWords(Tail(words), word, par, font, max_text_width,
                            Append(acc, [text |-> current_line, par |-> par]))

\* The outer loop over the paragraphs from number par on.
RECURSIVE WrapParagraphs(_, _, _, _, _)
WrapParagraphs(paragraphs, par, font, max_text_width, acc) ==
    IF par > Len(paragraphs) THEN acc
    ELSE WrapParagraphs(paragraphs, par + 1, font, max_text_width,
             WrapWords(split_words(paragraphs[par]), <<>>, par, font,
                       max_text_width, acc))

\* lines 159-170
WrapText(custom_text, font, max_text_width) ==
    WrapParagraphs(split_paragraphs(custom_text), 1, font, max_text_width, <<>>)

\* x computed from the full line width instead of half the free space
CentreXNoHalving(width, text_width) == (width * SubPixel - text_width) \div SubPixel

\* x = (width - text_width) // 2: a floor division, in pixels
CentreX(width, text_width) == (width * SubPixel - text_width) \div (2 * SubPixel)

\* line_height = font.getbbox("A")[3] - font.getbbox("A")[1] + 10
LineHeight(font) == GlyphHeight(font) + line_gap

\* start_y = height // 2 + (height // 4 - total_text_height // 2)
StartY(height, total_text_height) ==
    height \div 2 + (height \div 4 - total_text_height \div 2)

\* add_text_to_image_centered_custom: what it displays, wraps and draws
AddText(img, custom_text, size, face, loads) ==
    LET loaded == LoadFont(face, size, loads)
        font == loaded.font
        wrapped == WrapText(custom_text, font, MaxTextWidth(img.width))
        line_height == LineHeight(font)
        start_y == StartY(img.height, Len(wrapped) * line_height)
        Draw(k) ==
            LET x == CentreX(img.width, getlength(font, wrapped[k].text))
                y == start_y + (k - 1) * line_height
            IN  [line |-> wrapped[k].text,
                 text_width |-> getlength(font, wrapped[k].text), x |-> x, y |-> y,
                 shadow_x |-> x + shadow_offset, shadow_y |-> y + shadow_offset]
    IN  [shown |-> loaded.shown,
         font |-> font,
         lines |-> [k \in 1..Len(wrapped) |-> wrapped[k].text],
         line_par |-> [k \in 1..Len(wrapped) |-> wrapped[k].par],
         draws |-> [k \in 1..Len(wrapped) |-> Draw(k)]]

----------------------------------------------------------------------------
(* The "Generate Text Image" button, lines 191-206 *)

NoImage == [width |-> 0, height |-> 0]     \* nothing uploaded: uploaded_img is None
NoFont == [face |-> "none", size |-> 0]

\* What the top of the script shows in a run where "Generate Images" is not clicked
\* (lines 78-79 and 112-113).
PromptGuard(p) ==
    IF p # "" THEN <<>> ELSE <<"info: Enter a prompt above">>

TextImageClick(img, text, size, face, loads) ==
    /\ uploaded_img' = img
    /\ text_to_add' = text
    /\ text_size' = size
    /\ font_choice' = face
    /\ font_loads' = loads
    /\ IF img # NoImage /\ text # <<>>
       THEN LET r == AddText(img, text, size, face, loads)
            IN  /\ lines' = r.lines
                /\ line_par' = r.line_par
                /\ draws' = r.draws
                /\ font_used' = r.font
                /\ out_image' = TRUE
                /\ messages' = PromptGuard(prompt) \o r.shown
       ELSE /\ lines' = <<>>
            /\ line_par' = <<>>
            /\ draws' = <<>>
            /\ font_used' = NoFont
            /\ out_image' = FALSE
            /\ messages' = PromptGuard(prompt)
                             \o <<"warning: Please upload an image and enter some text">>
    /\ images' = <<>>
    /\ history_view' = <<>>
    /\ last_action' = "text_image"
    /\ ended' = "completed"
    /\ api' = <<>>
    /\ UNCHANGED <<prompt_history, prompt, style, num_images>>

----------------------------------------------------------------------------
(* The "Generate Images" button, lines 78-113 *)

StyleOptions == {"Realistic", "Anime", "Sketch", "Cyberpunk", "All Styles"}
Prompts == {"", "a city at sunset", "a red fox"}

\* What one call of the inference endpoint can do.
Outcomes == {"image", "status_error", "unreachable", "bad_body"}

\* selected_styles
SelectedStyles(s) ==
    IF s # "All Styles" THEN <<s>> ELSE <<"Realistic", "Anime", "Sketch", "Cyberpunk">>

\* total_images
TotalImages(s, n) == Len(SelectedStyles(s)) * n

\* The (s, i) of the k-th pass through the two nested loops of lines 90-91.
Request(s, n, k) ==
    [style |-> SelectedStyles(s)[((k - 1) \div n) + 1], i |-> (k - 1) % n]

\* generate_image: requests.post raises when the endpoint is unreachable, a status
\* other than 200 is displayed and gives None, and Image.open raises on a body
\* that is no image.
GenerateImage(outcome) ==
    IF outcome = "image" THEN [raised |-> FALSE, img |-> TRUE, shown |-> <<>>]
    ELSE IF outcome = "status_error"
    THEN [raised |-> FALSE, img |-> FALSE, shown |-> <<"error: API Error">>]
    ELSE [raised |-> TRUE, img |-> FALSE, shown |-> <<>>]

\* Lines 90-95 from the k-th request on.  An exception leaves the loops and the script.
RECURSIVE RunRequests(_, _, _, _, _, _)
RunRequests(s, n, answers, k, imgs, shown) ==
    IF k > TotalImages(s, n) THEN [raised |-> FALSE, images |-> imgs, shown |-> shown]
    ELSE LET r == GenerateImage(answers[k])
             req == Request(s, n, k)
             caption == [style |-> req.style, number |-> req.i + 1]
         IN  IF r.raised
             THEN [raised |-> TRUE, images |-> imgs, shown |-> shown]
             ELSE RunRequests(s, n, answers, k + 1,
                              IF r.img THEN Append(imgs, caption) ELSE imgs,
                              shown \o r.shown)

\* a history that keeps only the entries it displays
AppendHistoryCapped(history, p) ==
    LET h == Append(history, p)
    IN  SubSeq(h, IF Len(h) > HistoryShown THEN Len(h) - HistoryShown + 1 ELSE 1, Len(h))

\* history.append(prompt)
AppendHistory(history, p) == Append(history, p)

\* the first five entries, oldest first
HistoryViewOldest(history) ==
    SubSeq(history, 1, IF Len(history) > HistoryShown THEN HistoryShown ELSE Len(history))

\* reversed(history[-5:])
HistoryView(history) ==
    LET n == Len(history)
        last == SubSeq(history, IF n > HistoryShown THEN n - HistoryShown + 1 ELSE 1, n)
    IN  [k \in 1..Len(last) |-> last[Len(last) - k + 1]]

GenerateClick(p, s, n, answers) ==
    /\ p # ""                                \* the button exists only under `if prompt:`
    /\ Len(prompt_history) < MaxHistory
    /\ LET history == AppendHistory(prompt_history, p)
           run == RunRequests(s, n, answers, 1, <<>>, <<>>)
       IN  /\ prompt_history' = history
           /\ IF run.raised
              THEN /\ images' = <<>>
                   /\ messages' = <<"info: Generating">> \o run.shown \o <<"exception">>
                   /\ history_view' = <<>>
                   /\ ended' = "aborted"
              ELSE /\ images' = run.images
                   /\ messages' = <<"info: Generating">> \o run.shown \o <<"success: Done">>
                                    \o (IF run.images # <<>> THEN <<>>
                                        ELSE <<"warning: No images were generated">>)
                   /\ history_view' = <<HistoryView(history)>>
                   /\ ended' = "completed"
    /\ prompt' = p
    /\ style' = s
    /\ num_images' = n
    /\ api' = answers
    /\ lines' = <<>>
    /\ line_par' = <<>>
    /\ draws' = <<>>
    /\ font_used' = NoFont
    /\ out_image' = FALSE
    /\ last_action' = "generate"
    /\ UNCHANGED <<uploaded_img, text_to_add, text_size, font_choice, font_loads>>

\* A run of the script in which no button is clicked: the user edited the prompt box.
Rerun(p) ==
    /\ prompt' = p
    /\ messages' = PromptGuard(p)
    /\ images' = <<>>
    /\ history_view' = <<>>
    /\ lines' = <<>>
    /\ line_par' = <<>>
    /\ draws' = <<>>
    /\ font_used' = NoFont
    /\ out_image' = FALSE
    /\ last_action' = "rerun"
    /\ ended' = "completed"
    /\ api' = <<>>
    /\ UNCHANGED <<prompt_history, style, num_images,
                   uploaded_img, text_to_add, text_size, font_choice, font_loads>>

----------------------------------------------------------------------------
(* Specifications *)

ImageWidths == {40, 104, 110, 125}
ImageHeights == {360}
Images == [width : ImageWidths, height : ImageHeights]

\* The state of a fresh session in which no button was clicked yet.
Fresh ==
    /\ prompt_history = <<>>
    /\ images = <<>>
    /\ history_view = <<>>
    /\ lines = <<>>
    /\ line_par = <<>>
    /\ draws = <<>>
    /\ font_used = NoFont
    /\ out_image = FALSE
    /\ messages = <<>>
    /\ last_action = "none"
    /\ ended = "completed"

NoOverlayInput ==
    /\ uploaded_img = NoImage
    /\ text_to_add = <<>>
    /\ text_size = 10
    /\ font_choice = "DejaVu Sans"
    /\ font_loads = TRUE

NoGenerateInput ==
    /\ prompt = ""
    /\ style = "Realistic"
    /\ num_images = 1
    /\ api = <<>>

(* SpecCompose: one click of "Generate Text Image" on every caption, image, size *)
(* and face of the bounded sets.                                                 *)
InitCompose ==
    /\ Fresh
    /\ NoGenerateInput
    /\ uploaded_img \in Images \cup {NoImage}
    /\ text_to_add \in TextsUpTo(MaxLen)
    /\ text_size \in TextSizes
    /\ font_choice \in FontFaces
    /\ font_loads \in BOOLEAN
    /\ ~font_loads => (text_size = 10 /\ font_choice = "DejaVu Sans")

ComposeStep ==
    /\ last_action = "none"
    /\ TextImageClick(uploaded_img, text_to_add, text_size, font_choice, font_loads)

NextCompose == ComposeStep

SpecCompose == InitCompose /\ [][NextCompose]_vars

(* SpecGenerate: one click of "Generate Images" against every sequence of answers *)
(* of the endpoint.                                                               *)
InitGenerate ==
    /\ Fresh
    /\ NoOverlayInput
    /\ prompt \in Prompts \ {""}
    /\ style \in StyleOptions
    /\ num_images \in 1..MaxNumImages
    /\ api \in [1..TotalImages(style, num_images) -> Outcomes]

GenerateStep ==
    /\ last_action = "none"
    /\ GenerateClick(prompt, style, num_images, api)

NextGenerate == GenerateStep

SpecGenerate == InitGenerate /\ [][NextGenerate]_vars

(* Spec: a session, any sequence of runs.  Within one run the endpoint answers *)
(* every request alike.                                                        *)
SessionImages == {NoImage, [width |-> 110, height |-> 360]}
SessionTexts == {<<>>, <<"a", "b", "sp", "a">>}
SessionStyles == {"Sketch", "All Styles"}
SessionOutcomes == {"image", "status_error", "unreachable"}

Init == Fresh /\ NoOverlayInput /\ NoGenerateInput

SessionGenerate ==
    \E p \in Prompts, s \in SessionStyles, n \in 1..MaxNumImages, o \in SessionOutcomes :
        GenerateClick(p, s, n, [k \in 1..TotalImages(s, n) |-> o])

SessionTextImage ==
    \E img \in SessionImages, text \in SessionTexts :
        TextImageClick(img, text, text_size, font_choice, font_loads)

SessionRerun == \E p \in Prompts : Rerun(p)

Next == SessionGenerate \/ SessionTextImage \/ SessionRerun

Spec == Init /\ [][Next]_vars

----------------------------------------------------------------------------
(* Vocabulary of the properties *)

\* The compositor ran in the last script run.
Composed == last_action = "text_image" /\ out_image

\* The k-th smallest element of a finite set of integers.
Nth(S, k) == CHOOSE x \in S : Cardinality({y \in S : y < x}) = k - 1

\* The whitespace-separated words of a text, read off the positions of the text.
WordStarts(s) ==
    {i \in 1..Len(s) : ~IsSpace(s[i]) /\ (i = 1 \/ IsSpace(s[i - 1]))}

WordEnd(s, i) ==
    CHOOSE j \in i..Len(s) :
        /\ \A k \in i..j : ~IsSpace(s[k])
        /\ (j = Len(s) \/ IsSpace(s[j + 1]))

WordsOf(s) ==
    [k \in 1..Cardinality(WordStarts(s)) |->
        SubSeq(s, Nth(WordStarts(s), k), WordEnd(s, Nth(WordStarts(s), k)))]

\* The paragraphs of a text: the pieces between its line breaks.
Cuts(s) == {0, Len(s) + 1} \cup {i \in 1..Len(s) : s[i] = NL}

ParagraphsOf(s) ==
    [k \in 1..(Cardinality(Cuts(s)) - 1) |->
        SubSeq(s, Nth(Cuts(s), k) + 1, Nth(Cuts(s), k + 1) - 1)]

RECURSIVE Flatten(_)
Flatten(ss) == IF ss = <<>> THEN <<>> ELSE Head(ss) \o Flatten(Tail(ss))

\* The words of all emitted lines, in line order.
EmittedWords == Flatten([k \in 1..Len(lines) |-> WordsOf(lines[k])])

\* The words of the lines that paragraph number i appended, in line order.
RECURSIVE WordsFrom(_, _)
WordsFrom(i, k) ==
    IF k > Len(lines) THEN <<>>
    ELSE (IF line_par[k] = i THEN WordsOf(lines[k]) ELSE <<>>) \o WordsFrom(i, k + 1)

\* The width budget in 1/SubPixel pixel: image width minus the margin on both sides.
Budget == (uploaded_img.width - 2 * padding) * SubPixel

Count(seq, x) == Cardinality({k \in 1..Len(seq) : seq[k] = x})

----------------------------------------------------------------------------
(* Properties of the caption compositor, checked under SpecCompose *)

\* C1: the words of the emitted lines, concatenated in line order, are exactly the
\* whitespace-separated words of the caption in their order: no word is dropped,
\* duplicated, reordered or split across lines.
C1_WordsPreserved == Composed => EmittedWords = WordsOf(text_to_add)

\* A caption of three words or more wrapped into several lines, one of which
\* holds two words.
C1_Witness ==
    /\ Composed
    /\ Len(WordsOf(text_to_add)) >= 3
    /\ Len(lines) >= 2
    /\ \E k \in 1..Len(lines) : Len(WordsOf(lines[k])) >= 2

\* C2: a line of more than one word is at most as wide as the budget; a line wider
\* than the budget consists of exactly one word; a word wider than the budget is
\* alone on its line, and the compositor returns.
C2_WidthBudget ==
    Composed =>
        \A k \in 1..Len(lines) :
            LET n == Len(WordsOf(lines[k]))
                w == draws[k].text_width
            IN  /\ n > 1 => w <= Budget
                /\ w > Budget => n = 1
                /\ (\E j \in 1..n : getlength(font_used, WordsOf(lines[k])[j]) > Budget)
                      => n = 1

\* The paragraphs a line's words come from are kept apart: the lines appended by
\* paragraph i carry exactly the words of paragraph i, and lines are appended in
\* paragraph order.
ParagraphsApart ==
    /\ Len(line_par) = Len(lines)
    /\ \A k \in 1..(Len(lines) - 1) : line_par[k] <= line_par[k + 1]
    /\ \A i \in 1..Len(ParagraphsOf(text_to_add)) :
          WordsFrom(i, 1) = WordsOf(ParagraphsOf(text_to_add)[i])

\* C3 as stated: no line mixes two paragraphs, and every paragraph without words
\* yields exactly one empty line.
C3_EmptyParagraphKept ==
    Composed =>
        /\ ParagraphsApart
        /\ \A i \in 1..Len(ParagraphsOf(text_to_add)) :
              WordsOf(ParagraphsOf(text_to_add)[i]) = <<>> =>
                  /\ Cardinality({k \in 1..Len(lines) : line_par[k] = i}) = 1
                  /\ \A k \in 1..Len(lines) : line_par[k] = i => lines[k] = <<>>

\* C3 amended: no line mixes two paragraphs, and a paragraph without words yields
\* no line at all.
C3_EmptyParagraphSkipped ==
    Composed =>
        /\ ParagraphsApart
        /\ \A i \in 1..Len(ParagraphsOf(text_to_add)) :
              WordsOf(ParagraphsOf(text_to_add)[i]) = <<>> =>
                  \A k \in 1..Len(lines) : line_par[k] # i

\* A paragraph without words between two paragraphs that have words.
C3_Witness ==
    /\ Composed
    /\ \E i \in 2..(Len(ParagraphsOf(text_to_add)) - 1) :
          /\ WordsOf(ParagraphsOf(text_to_add)[i]) = <<>>
          /\ WordsOf(ParagraphsOf(text_to_add)[i - 1]) # <<>>
          /\ WordsOf(ParagraphsOf(text_to_add)[i + 1]) # <<>>
    /\ Len(lines) >= 2

\* C4: every line is centred: x + lineWidth/2 is within one pixel of imageWidth/2
\* (the inequality is multiplied by 2 * SubPixel).
C4_Centred ==
    Composed =>
        \A k \in 1..Len(draws) :
            LET d == 2 * SubPixel * draws[k].x + draws[k].text_width
                       - SubPixel * uploaded_img.width
            IN  -(2 * SubPixel) <= d /\ d <= 2 * SubPixel

\* A line wider than the image whose position was rounded.
C4_Witness ==
    /\ Composed
    /\ \E k \in 1..Len(draws) :
          /\ draws[k].text_width > SubPixel * uploaded_img.width
          /\ 2 * SubPixel * draws[k].x + draws[k].text_width
                # SubPixel * uploaded_img.width

\* C5 as stated: the main text of every line is drawn at x >= 50.
C5_Clamped == Composed => \A k \in 1..Len(draws) : draws[k].x >= padding

\* C5 amended: x is not clamped; x >= 50 holds exactly for the lines that are at
\* most as wide as the budget, which includes every line of more than one word.
C5_MarginIffFits ==
    Composed =>
        \A k \in 1..Len(draws) :
            /\ draws[k].x >= padding <=> draws[k].text_width <= Budget
            /\ Len(WordsOf(lines[k])) > 1 => draws[k].x >= padding

\* On an image wider than the two margins, one run draws a word that fits inside
\* the margins and a single over-long word that reaches into them.
C5_Witness ==
    /\ Composed
    /\ Budget >= 0
    /\ \E k \in 1..Len(draws) :
          Len(WordsOf(lines[k])) = 1 /\ draws[k].x >= padding
    /\ \E k \in 1..Len(draws) :
          /\ Len(WordsOf(lines[k])) = 1
          /\ draws[k].text_width > Budget
          /\ draws[k].x < padding

\* C7: when the chosen face cannot be loaded the compositor displays the failure,
\* goes on with the built-in default face, wraps and draws every line and returns
\* its image.
C7_FontFallback ==
    (last_action = "text_image" /\ uploaded_img # NoImage /\ text_to_add # <<>>
        /\ ~font_loads) =>
        /\ out_image
        /\ ended = "completed"
        /\ Count(messages, "error: Font load failed") = 1
        /\ font_used.face = "default"
        /\ EmittedWords = WordsOf(text_to_add)
        /\ Len(draws) = Len(lines)
        /\ \A k \in 1..Len(draws) :
              /\ draws[k].line = lines[k]
              /\ draws[k].text_width = getlength(font_used, lines[k])

\* The fallback face wrapped a caption into several lines.
C7_Witness == Composed /\ ~font_loads /\ Len(lines) >= 2 /\ Len(draws) >= 2

\* C10: when every paragraph has a word, no emitted line is empty and there are
\* at most as many lines as words.
C10_NoEmptyLine ==
    (Composed /\ \A i \in 1..Len(ParagraphsOf(text_to_add)) :
                    WordsOf(ParagraphsOf(text_to_add)[i]) # <<>>) =>
        /\ \A k \in 1..Len(lines) : lines[k] # <<>>
        /\ Len(lines) <= Len(WordsOf(text_to_add))

----------------------------------------------------------------------------
(* Property of one generate run, checked under SpecGenerate *)

\* C6: whatever the endpoint answers, the run reaches its end: every failed
\* request shows an error and yields no image, every other request yields its
\* image, the "no images" warning is shown when nothing came back, and the prompt
\* history is rendered.
C6_FailuresRecovered ==
    last_action = "generate" =>
        /\ ended = "completed"
        /\ history_view # <<>>
        /\ Len(images) = Count(api, "image")
        /\ Cardinality({k \in 1..Len(messages) : messages[k] \in
                           {"error: API Error", "exception"}})
              = Len(api) - Count(api, "image")
        /\ images = <<>> => Count(messages, "warning: No images were generated") = 1

----------------------------------------------------------------------------
(* Properties of a session, checked under Spec *)

\* C8: the prompt history is append-only: a generate run appends its non-empty
\* prompt once at the end, with or without images; every other run leaves the
\* history as it was.
C8_HistoryAppendOnly ==
    [][IF last_action' = "generate"
       THEN prompt' # "" /\ prompt_history' = Append(prompt_history, prompt')
       ELSE prompt_history' = prompt_history]_vars

\* A generate run that produced no image and still recorded its prompt after
\* earlier ones, in a session that also saw an overlay run.
C8_Witness ==
    /\ last_action = "generate"
    /\ images = <<>>
    /\ Len(prompt_history) > HistoryShown
    /\ text_to_add # <<>>

\* C9: a generate run that reaches its end renders min(5, n) entries of the n
\* recorded prompts: the last ones, newest first, the first being the prompt
\* just submitted.
C9_RecentFive ==
    /\ (last_action = "generate" /\ ended = "completed") => history_view # <<>>
    /\ history_view # <<>> =>
          LET shown == history_view[1]
              n == Len(prompt_history)
              m == IF n < HistoryShown THEN n ELSE HistoryShown
          IN  /\ Len(shown) = m
              /\ \A k \in 1..m : shown[k] = prompt_history[n - k + 1]
              /\ shown[1] = prompt

\* More than five prompts recorded, the oldest one differing from the sixth newest
\* shown, and the entries shown not all equal.
C9_Witness ==
    /\ history_view # <<>>
    /\ Len(prompt_history) > HistoryShown
    /\ prompt_history[1] # prompt_history[2]
    /\ history_view[1][1] # history_view[1][2]

====
